---- MODULE Spec2Model ----
(***************************************************************************)
(* Model of src/App.py: the genetic algorithm AlgoritmoGenetico that       *)
(* searches a four-component fuel blend.                                   *)
(*                                                                         *)
(* Numbers are exact rationals [k, n, d] (k = "num"), with the two IEEE    *)
(* specials numpy produces here: "nan" (0/0) and "inf" (float('inf'),      *)
(* x/0).  A candidate is a tuple of 4 such numbers.  An ndarray object is  *)
(* [ref, v]: v is its contents and ref tells whose memory it is: ref = i   *)
(* (1..n) is a view on row i of the current populacao, ref = 0 is an       *)
(* array of its own.  Python indices are 0-based, the model's 1-based.     *)
(*                                                                         *)
(* Spec is one instance on which executar is called once, as the script    *)
(* does; SpecRep lets executar be called again on the same instance.       *)
(* Random draws range over small sample sets; float rounding is not        *)
(* modelled.                                                               *)
(***************************************************************************)
EXTENDS Integers, Sequences, FiniteSets, TLC

\* ---------------------------------------------------------------- bounds
MaxPop == 2
MaxGer == 2
MaxK == 2
MaxChamadas == 2
\* offspring one call of executar may generate: (tamanho_pop - 1) * geracoes
MaxFilhos == 2
\* offspring all the calls of executar on one instance may generate together
MaxFilhosRep == 2

\* ------------------------------------------------- floating-point numbers
RECURSIVE Gcd(_, _)
Gcd(a, b) == IF b = 0 THEN a ELSE Gcd(b, a % b)

Abs(x) == IF x < 0 THEN -x ELSE x

NaN == [k |-> "nan", n |-> 0, d |-> 1]
Inf == [k |-> "inf", n |-> 1, d |-> 1]

Q(a, b) ==
    LET g == Gcd(Abs(a), b)
    IN  [k |-> "num", n |-> a \div g, d |-> b \div g]

IsNaN(x) == x.k = "nan"

QAdd(x, y) ==
    IF IsNaN(x) \/ IsNaN(y) THEN NaN
    ELSE IF x.k = "inf" \/ y.k = "inf" THEN Inf
    ELSE LET g == Gcd(x.d, y.d)
         IN  Q(x.n * (y.d \div g) + y.n * (x.d \div g), (x.d \div g) * y.d)

QNeg(x) == IF x.k = "num" THEN Q(-x.n, x.d) ELSE x

QSub(x, y) ==
    IF y.k = "inf" THEN (IF x.k = "num" THEN Inf ELSE NaN) ELSE QAdd(x, QNeg(y))

QMul(x, y) ==
    IF IsNaN(x) \/ IsNaN(y) THEN NaN
    ELSE IF x.k = "inf" \/ y.k = "inf"
         THEN (IF (x.k = "num" /\ x.n = 0) \/ (y.k = "num" /\ y.n = 0) THEN NaN ELSE Inf)
    ELSE LET g1 == Gcd(Abs(x.n), y.d)
             g2 == Gcd(Abs(y.n), x.d)
         IN  Q((x.n \div g1) * (y.n \div g2), (x.d \div g2) * (y.d \div g1))

\* numpy division: 0/0 and nan/x are nan, x/0 is inf (a warning, no exception)
QDiv(x, y) ==
    IF IsNaN(x) \/ IsNaN(y) THEN NaN
    ELSE IF x.k = "inf" THEN (IF y.k = "inf" THEN NaN ELSE Inf)
    ELSE IF y.k = "inf" THEN Q(0, 1)
    ELSE IF y.n = 0 THEN (IF x.n = 0 THEN NaN ELSE Inf)
    ELSE LET g1 == Gcd(Abs(x.n), Abs(y.n))
             g2 == Gcd(x.d, y.d)
             s  == IF y.n < 0 THEN -1 ELSE 1
         IN  Q(s * (x.n \div g1) * (y.d \div g2), (x.d \div g2) * (Abs(y.n) \div g1))

QAbs(x) == IF x.k = "num" THEN Q(Abs(x.n), x.d) ELSE x

\* IEEE comparison: every comparison with nan is false
QLess(x, y) ==
    IF IsNaN(x) \/ IsNaN(y) THEN FALSE
    ELSE IF x.k = "inf" THEN FALSE
    ELSE IF y.k = "inf" THEN TRUE
    ELSE LET g == Gcd(x.d, y.d)
         IN  x.n * (y.d \div g) < y.n * (x.d \div g)

QGreater(x, y) == QLess(y, x)

Num(i) == Q(i, 1)

\* ----------------------------------------------------------- vector ops
Genes == 1..4

VecSum(v) == QAdd(QAdd(QAdd(v[1], v[2]), v[3]), v[4])

Dot(v, w) ==
    QAdd(QAdd(QAdd(QMul(v[1], w[1]), QMul(v[2], w[2])), QMul(v[3], w[3])), QMul(v[4], w[4]))

\* v / v.sum()
Normaliza(v) == LET s == VecSum(v) IN [i \in Genes |-> QDiv(v[i], s)]

VecAbs(v) == [i \in Genes |-> QAbs(v[i])]

\* ------------------------------------------------------ ComponenteDados
custos == <<Q(250, 100), Q(300, 100), Q(180, 100), Q(280, 100)>>
octanagem == <<Num(95), Num(88), Num(85), Num(92)>>
pressao_vapor == <<Num(65), Num(55), Num(58), Num(64)>>
teor_benzeno == <<Q(25, 10), Q(15, 10), Q(12, 10), Q(20, 10)>>
teor_enxofre == <<Num(60), Num(40), Num(35), Num(55)>>

\* -------------------------------------------------------- Especificacoes
octanagem_min == 91
pressao_vapor_max == 62
benzeno_max == 2
enxofre_max == 50

\* ---------------------------------------------------- fitness evaluation
calcular_propriedades(individuo) ==
    [oct  |-> Dot(individuo, octanagem),
     pres |-> Dot(individuo, pressao_vapor),
     benz |-> Dot(individuo, teor_benzeno),
     enx  |-> Dot(individuo, teor_enxofre)]

calcular_custo(individuo) == Dot(individuo, custos)

\* faulty variant of calcular_penalidades, which C8 must reject: the octane test is inverted
calcular_penalidades_invertida(individuo) ==
    LET p  == calcular_propriedades(individuo)
        p1 == IF QGreater(p.oct, Num(octanagem_min))
              THEN QMul(Num(100), QSub(p.oct, Num(octanagem_min))) ELSE Num(0)
        p2 == IF QGreater(p.pres, Num(pressao_vapor_max))
              THEN QMul(Num(50), QSub(p.pres, Num(pressao_vapor_max))) ELSE Num(0)
        p3 == IF QGreater(p.benz, Num(benzeno_max))
              THEN QMul(Num(200), QSub(p.benz, Num(benzeno_max))) ELSE Num(0)
        p4 == IF QGreater(p.enx, Num(enxofre_max))
              THEN QMul(Num(150), QSub(p.enx, Num(enxofre_max))) ELSE Num(0)
    IN  QAdd(QAdd(QAdd(p1, p2), p3), p4)

calcular_penalidades(individuo) ==
    LET p  == calcular_propriedades(individuo)
        p1 == IF QLess(p.oct, Num(octanagem_min))
              THEN QMul(Num(100), QSub(Num(octanagem_min), p.oct)) ELSE Num(0)
        p2 == IF QGreater(p.pres, Num(pressao_vapor_max))
              THEN QMul(Num(50), QSub(p.pres, Num(pressao_vapor_max))) ELSE Num(0)
        p3 == IF QGreater(p.benz, Num(benzeno_max))
              THEN QMul(Num(200), QSub(p.benz, Num(benzeno_max))) ELSE Num(0)
        p4 == IF QGreater(p.enx, Num(enxofre_max))
              THEN QMul(Num(150), QSub(p.enx, Num(enxofre_max))) ELSE Num(0)
    IN  QAdd(QAdd(QAdd(p1, p2), p3), p4)

fitness(individuo) == QAdd(calcular_custo(individuo), calcular_penalidades(individuo))

\* ------------------------------------------------------------ ndarrays
Nenhum == [ref |-> 0, v |-> <<>>]

\* populacao[i]: a view on row i of the population array
Linha(pop, i) == [ref |-> i, v |-> pop[i]]

\* faulty variant of Copia, which C9 must reject: the array itself is handed on
SemCopia(obj) == obj

\* ndarray.copy(): same contents, memory of its own
Copia(obj) == [ref |-> 0, v |-> obj.v]

\* the effect on the holder obj of an in-place write of mem into memory r
Escreve(obj, r, mem) == IF r # 0 /\ obj.ref = r THEN [obj EXCEPT !.v = mem] ELSE obj

\* np.argmin: the first nan if there is one, else the first minimum
ArgMin(fs) ==
    IF \E i \in DOMAIN fs : IsNaN(fs[i])
    THEN CHOOSE i \in DOMAIN fs : IsNaN(fs[i]) /\ \A j \in 1..(i - 1) : ~IsNaN(fs[j])
    ELSE CHOOSE i \in DOMAIN fs :
             /\ \A j \in DOMAIN fs : ~QLess(fs[j], fs[i])
             /\ \A j \in 1..(i - 1) : QLess(fs[i], fs[j])

\* --------------------------------------------------- random-draw domains
\* np.random.random() lies in [0, 1): the draws modelled are 0 and 1/2
UDraws == {Num(0), Q(1, 2)}

\* np.random.random(4) in criar_individuo: sample draws, a component may be 0.0
Sorteios ==
    {<<Q(1, 2), Q(1, 2), Num(0), Num(0)>>,
     <<Num(0), Num(0), Q(1, 2), Q(1, 2)>>,
     <<Q(1, 2), Q(1, 2), Q(1, 2), Q(1, 2)>>}

\* np.random.normal(0, 0.1)
Ruidos == {Q(-1, 2), Q(1, 2)}

\* np.random.random(4) < 0.5 in crossover
Mascaras ==
    {<<TRUE, FALSE, TRUE, FALSE>>,
     <<FALSE, FALSE, TRUE, TRUE>>,
     <<TRUE, TRUE, FALSE, FALSE>>}

\* np.random.randint(4) in mutacao
Posicoes == {1, 3}

\* configurations: the constructor accepts any value
TamanhosPop == (-1)..MaxPop
NumGeracoes == (-1)..MaxGer
TorneiosK == 0..MaxK
TaxasCrossover == {Num(0), Q(1, 2), Num(1)}
TaxasMutacao == {Num(0), Q(1, 2), Q(3, 2)}

Pos(x) == IF x > 0 THEN x ELSE 0

\* the offspring a run with this configuration generates
Filhos(tp, g) == Pos(tp - 1) * Pos(g)

\* ------------------------------------------------------------- the state
VARIABLES
    tamanho_pop, taxa_crossover, taxa_mutacao, geracoes, torneio_k,
    historico_custos, melhor_solucao, melhor_custo,
    pc, chamadas, geracao, populacao, fitness_values, melhor_idx,
    nova_populacao, idx, pai1, pai2, filho, resultado

config == <<tamanho_pop, taxa_crossover, taxa_mutacao, geracoes, torneio_k>>
locais == <<geracao, populacao, fitness_values, melhor_idx, nova_populacao, idx, pai1, pai2, filho>>
vars == <<config, historico_custos, melhor_solucao, melhor_custo, pc, chamadas, locais, resultado>>

\* ------------------------------------------------------------- operators
criar_individuo(proporcoes) == Normaliza(proporcoes)

\* faulty variant of selecao_torneio, which C2 must reject: the first index drawn wins
selecao_primeiro(pop, fits, sorteio) == Copia(Linha(pop, sorteio[1]))

selecao_torneio(pop, fits, sorteio) ==
    LET sub == [j \in DOMAIN sorteio |-> fits[sorteio[j]]]
        m   == sorteio[ArgMin(sub)]
    IN  Copia(Linha(pop, m))

crossover(p1, p2, u, mascara) ==
    IF QLess(u, taxa_crossover)
    THEN [ref |-> 0,
          v   |-> Normaliza([i \in Genes |-> IF mascara[i] THEN p1.v[i] ELSE p2.v[i]])]
    ELSE Copia(p1)

\* mem: the contents of the argument's memory after the call; ret: the value returned
mutacao(individuo, u, i, ruido) ==
    IF QLess(u, taxa_mutacao)
    THEN LET escrito == [individuo.v EXCEPT ![i] = QAdd(@, ruido)]
         IN  [mem |-> escrito, ret |-> [ref |-> 0, v |-> Normaliza(VecAbs(escrito))]]
    ELSE [mem |-> individuo.v, ret |-> individuo]

\* faulty variant of Melhora, which C1 must reject: the record is overwritten by every generation
MelhoraSempre(f, c) == TRUE

\* line 122
Melhora(f, c) == QLess(f, c)

\* faulty variant of ContinuaGeracoes, which C5 must reject: one generation too many
ContinuaGeracoesMaisUma(g, G) == g <= G

\* line 117: range(self.geracoes)
ContinuaGeracoes(g, G) == g < G

\* --------------------------------------------------------------- actions
\* __init__, lines 45-56
Construido ==
    /\ tamanho_pop \in TamanhosPop
    /\ taxa_crossover \in TaxasCrossover
    /\ taxa_mutacao \in TaxasMutacao
    /\ geracoes \in NumGeracoes
    /\ torneio_k \in TorneiosK
    /\ historico_custos = <<>>
    /\ melhor_solucao = Nenhum
    /\ melhor_custo = Inf
    /\ pc = "idle"
    /\ chamadas = 0
    /\ geracao = 0
    /\ populacao = <<>>
    /\ fitness_values = <<>>
    /\ melhor_idx = 0
    /\ nova_populacao = <<>>
    /\ idx = <<>>
    /\ pai1 = Nenhum
    /\ pai2 = Nenhum
    /\ filho = Nenhum
    /\ resultado = <<>>

Init == Construido /\ Filhos(tamanho_pop, geracoes) <= MaxFilhos

InitRep == Construido /\ MaxChamadas * Filhos(tamanho_pop, geracoes) <= MaxFilhosRep

\* executar is called: lines 115-116, criar_populacao
Chamar ==
    /\ chamadas' = chamadas + 1
    /\ \E sorteio \in [1..(IF tamanho_pop > 0 THEN tamanho_pop ELSE 0) -> Sorteios] :
           populacao' = [i \in DOMAIN sorteio |-> criar_individuo(sorteio[i])]
    /\ geracao' = 0
    /\ fitness_values' = <<>>
    /\ melhor_idx' = 0
    /\ nova_populacao' = <<>>
    /\ idx' = <<>>
    /\ pai1' = Nenhum
    /\ pai2' = Nenhum
    /\ filho' = Nenhum
    /\ resultado' = <<>>
    /\ pc' = "laco"
    /\ UNCHANGED <<config, historico_custos, melhor_solucao, melhor_custo>>

\* the call the script makes on the instance it has constructed (line 207)
Executar == pc = "idle" /\ Chamar

\* a further call on the same instance, after the previous one returned or raised
ExecutarDeNovo == pc \in {"done", "erro"} /\ chamadas < MaxChamadas /\ Chamar

\* lines 118-125: evaluate, record the generation's best, seed the elite
Avaliar ==
    /\ pc = "laco"
    /\ ContinuaGeracoes(geracao, geracoes)
    /\ Len(populacao) > 0
    /\ LET fv == [i \in DOMAIN populacao |-> fitness(populacao[i])]
           mi == ArgMin(fv)
           mf == fv[mi]
       IN  /\ fitness_values' = fv
           /\ melhor_idx' = mi
           /\ historico_custos' = Append(historico_custos, mf)
           /\ IF Melhora(mf, melhor_custo)
              THEN /\ melhor_custo' = mf
                   /\ melhor_solucao' = Copia(Linha(populacao, mi))
              ELSE UNCHANGED <<melhor_custo, melhor_solucao>>
           /\ nova_populacao' = <<Copia(Linha(populacao, mi))>>
    /\ pc' = "enche"
    /\ UNCHANGED <<config, chamadas, geracao, populacao, idx, pai1, pai2, filho, resultado>>

\* np.argmin of an empty fitness array raises ValueError
AvaliarVazio ==
    /\ pc = "laco"
    /\ ContinuaGeracoes(geracao, geracoes)
    /\ Len(populacao) = 0
    /\ pc' = "erro"
    /\ UNCHANGED <<config, historico_custos, melhor_solucao, melhor_custo, chamadas, locais, resultado>>

Selecao1 ==
    /\ pc = "enche"
    /\ Len(nova_populacao) < tamanho_pop
    /\ torneio_k > 0
    /\ \E sorteio \in [1..torneio_k -> DOMAIN populacao] :
           /\ idx' = sorteio
           /\ pai1' = selecao_torneio(populacao, fitness_values, sorteio)
    /\ pc' = "sel2"
    /\ UNCHANGED <<config, historico_custos, melhor_solucao, melhor_custo, chamadas,
                   geracao, populacao, fitness_values, melhor_idx, nova_populacao,
                   pai2, filho, resultado>>

\* np.argmin of an empty draw (torneio_k = 0) raises ValueError
SelecaoVazia ==
    /\ pc = "enche"
    /\ Len(nova_populacao) < tamanho_pop
    /\ torneio_k <= 0
    /\ pc' = "erro"
    /\ UNCHANGED <<config, historico_custos, melhor_solucao, melhor_custo, chamadas, locais, resultado>>

Selecao2 ==
    /\ pc = "sel2"
    /\ \E sorteio \in [1..torneio_k -> DOMAIN populacao] :
           /\ idx' = sorteio
           /\ pai2' = selecao_torneio(populacao, fitness_values, sorteio)
    /\ pc' = "cross"
    /\ UNCHANGED <<config, historico_custos, melhor_solucao, melhor_custo, chamadas,
                   geracao, populacao, fitness_values, melhor_idx, nova_populacao,
                   pai1, filho, resultado>>

\* line 129; idx, pai1 and pai2 are rebound before they are read again: the
\* model drops them once crossover has returned
Crossover ==
    /\ pc = "cross"
    /\ \E u \in UDraws, mascara \in Mascaras :
           filho' = crossover(pai1, pai2, u, mascara)
    /\ idx' = <<>>
    /\ pai1' = Nenhum
    /\ pai2' = Nenhum
    /\ pc' = "mut"
    /\ UNCHANGED <<config, historico_custos, melhor_solucao, melhor_custo, chamadas,
                   geracao, populacao, fitness_values, melhor_idx, nova_populacao,
                   resultado>>

\* lines 130-131; the in-place write of mutacao reaches every holder of the
\* memory it was given.  filho is rebound before it is read again: the model
\* drops it when the iteration ends
Mutacao ==
    /\ pc = "mut"
    /\ \E u \in UDraws, i \in Posicoes, ruido \in Ruidos :
           LET m == mutacao(filho, u, i, ruido)
               r == filho.ref
           IN  /\ populacao' = [j \in DOMAIN populacao |->
                                   IF j = r THEN m.mem ELSE populacao[j]]
               /\ melhor_solucao' = Escreve(melhor_solucao, r, m.mem)
               /\ nova_populacao' =
                      Append([j \in DOMAIN nova_populacao |->
                                 Escreve(nova_populacao[j], r, m.mem)], m.ret)
    /\ filho' = Nenhum
    /\ pc' = "enche"
    /\ UNCHANGED <<config, historico_custos, melhor_custo, chamadas, geracao,
                   fitness_values, melhor_idx, idx, pai1, pai2, resultado>>

\* line 132: populacao = np.array(nova_populacao), a new array; fitness_values,
\* melhor_idx and nova_populacao are rebound before they are read again
Substituir ==
    /\ pc = "enche"
    /\ ~(Len(nova_populacao) < tamanho_pop)
    /\ populacao' = [j \in DOMAIN nova_populacao |-> nova_populacao[j].v]
    /\ melhor_solucao' = [melhor_solucao EXCEPT !.ref = 0]
    /\ geracao' = geracao + 1
    /\ fitness_values' = <<>>
    /\ melhor_idx' = 0
    /\ nova_populacao' = <<>>
    /\ pc' = "laco"
    /\ UNCHANGED <<config, historico_custos, melhor_custo, chamadas,
                   idx, pai1, pai2, filho, resultado>>

\* line 135; the frame of the call, populacao included, is gone on return
Retornar ==
    /\ pc = "laco"
    /\ ~ContinuaGeracoes(geracao, geracoes)
    /\ resultado' = <<melhor_solucao, melhor_custo>>
    /\ populacao' = <<>>
    /\ pc' = "done"
    /\ UNCHANGED <<config, historico_custos, melhor_solucao, melhor_custo, chamadas,
                   geracao, fitness_values, melhor_idx, nova_populacao, idx, pai1, pai2, filho>>

Next ==
    \/ Executar
    \/ Avaliar
    \/ AvaliarVazio
    \/ Selecao1
    \/ SelecaoVazia
    \/ Selecao2
    \/ Crossover
    \/ Mutacao
    \/ Substituir
    \/ Retornar

Spec == Init /\ [][Next]_vars

NextRep == Next \/ ExecutarDeNovo

SpecRep == InitRep /\ [][NextRep]_vars

\* =================================================================== claims
\* from Avaliar until Substituir: the offspring of one generation are built
Construindo == pc \in {"enche", "sel2", "cross", "mut"}

\* Avaliar has just evaluated the population
Avaliada == pc = "enche" /\ Len(nova_populacao) = 1

Indices(sorteio) == {sorteio[j] : j \in DOMAIN sorteio}

QLeq(x, y) == ~IsNaN(x) /\ ~IsNaN(y) /\ ~QLess(y, x)

\* 4 components, all >= 0, summing to 1
Valido(v) ==
    /\ Len(v) = 4
    /\ \A i \in Genes : v[i].k = "num" /\ v[i].n >= 0
    /\ VecSum(v) = Num(1)

\* all four thresholds met, a value on its threshold included
Viavel(v) ==
    /\ QLeq(Num(octanagem_min), Dot(v, octanagem))
    /\ QLeq(Dot(v, pressao_vapor), Num(pressao_vapor_max))
    /\ QLeq(Dot(v, teor_benzeno), Num(benzeno_max))
    /\ QLeq(Dot(v, teor_enxofre), Num(enxofre_max))

\* C1: melhor_custo never increases from one step to the next, and melhor_custo
\* and melhor_solucao are overwritten only by the evaluation of a generation
\* whose best fitness is strictly less than the value recorded so far; they
\* then hold that fitness and that generation's best individual.
C1_MelhorCustoNuncaPiora ==
    [][/\ ~QLess(melhor_custo, melhor_custo')
       /\ (melhor_custo' # melhor_custo \/ melhor_solucao' # melhor_solucao) =>
              /\ pc = "laco" /\ pc' = "enche"
              /\ QLess(historico_custos'[Len(historico_custos')], melhor_custo)
              /\ melhor_custo' = historico_custos'[Len(historico_custos')]
              /\ melhor_solucao'.v = populacao[melhor_idx']
              /\ fitness(melhor_solucao'.v) = melhor_custo']_vars

\* a later call whose generation is worse than the record: the record stays
C1_Witness ==
    /\ pc = "enche"
    /\ chamadas = 2
    /\ QLess(melhor_custo, historico_custos[Len(historico_custos)])

\* C2 as stated: with torneio_k equal to the population size, the parent
\* selected has the lowest fitness of the whole population.
C2_Original ==
    (pc = "sel2" /\ torneio_k = Len(populacao)) =>
        \A j \in DOMAIN populacao : ~QLess(fitness_values[j], fitness(pai1.v))

\* C2 amended: the parent selected is a copy of an individual that was drawn,
\* and no individual drawn has a strictly lower fitness; hence it is the
\* population's best whenever every index was drawn.
C2_MenorDosSorteados ==
    /\ pc = "sel2" =>
           /\ pai1.ref = 0
           /\ \E j \in Indices(idx) :
                  /\ pai1.v = populacao[j]
                  /\ \A i \in Indices(idx) : ~QLess(fitness_values[i], fitness_values[j])
           /\ Indices(idx) = DOMAIN populacao =>
                  \A i \in DOMAIN populacao : ~QLess(fitness_values[i], fitness(pai1.v))
    /\ pc = "cross" =>
           /\ pai2.ref = 0
           /\ \E j \in Indices(idx) :
                  /\ pai2.v = populacao[j]
                  /\ \A i \in Indices(idx) : ~QLess(fitness_values[i], fitness_values[j])
           /\ Indices(idx) = DOMAIN populacao =>
                  \A i \in DOMAIN populacao : ~QLess(fitness_values[i], fitness(pai2.v))

\* torneio_k is the population size and the draw missed the best individual
C2_Witness ==
    /\ pc = "sel2"
    /\ torneio_k = Len(populacao)
    /\ \E j \in DOMAIN populacao : QLess(fitness_values[j], fitness(pai1.v))

\* C3 as stated: every candidate of the population, every offspring already
\* built and the child crossover has returned have 4 components, all >= 0,
\* summing to 1.
C3_Original ==
    /\ \A i \in DOMAIN populacao : Valido(populacao[i])
    /\ \A i \in DOMAIN nova_populacao : Valido(nova_populacao[i].v)
    /\ pc = "mut" => Valido(filho.v)

\* C4 as stated: a generation starts with exactly tamanho_pop candidates, and
\* the population that replaces it holds the elite and tamanho_pop - 1 offspring.
C4_Original ==
    /\ (pc = "laco" /\ ContinuaGeracoes(geracao, geracoes)) => Len(populacao) = tamanho_pop
    /\ Construindo =>
           /\ Len(populacao) = tamanho_pop
           /\ Len(nova_populacao) >= 1
           /\ Len(nova_populacao) <= tamanho_pop
           /\ nova_populacao[1].v = populacao[melhor_idx]

\* C5 as stated, for a positive generation count: when a call has returned, it
\* has run exactly geracoes generations and historico_custos holds exactly
\* geracoes entries.
C5_Original ==
    (pc = "done" /\ geracoes > 0) =>
        /\ geracao = geracoes
        /\ Len(historico_custos) = geracoes

\* C5 amended: when the n-th call has returned, it has run exactly
\* max(geracoes, 0) generations, the result is the record, and historico_custos
\* holds n * max(geracoes, 0) entries; every generation appends exactly one
\* entry, the fitness of an individual of that generation than which no
\* individual of the generation has a strictly lower fitness.
C5_EntradasPorChamada ==
    /\ [](pc = "done" =>
              /\ geracao = Pos(geracoes)
              /\ Len(historico_custos) = chamadas * Pos(geracoes)
              /\ resultado = <<melhor_solucao, melhor_custo>>)
    /\ [][/\ (pc = "laco" /\ pc' = "enche") =>
                 /\ Len(historico_custos') = Len(historico_custos) + 1
                 /\ \A i \in DOMAIN historico_custos : historico_custos'[i] = historico_custos[i]
                 /\ \E j \in DOMAIN populacao :
                        /\ historico_custos'[Len(historico_custos')] = fitness(populacao[j])
                        /\ \A i \in DOMAIN populacao :
                               ~QLess(fitness(populacao[i]), fitness(populacao[j]))
          /\ ~(pc = "laco" /\ pc' = "enche") => historico_custos' = historico_custos
          /\ geracao' # geracao => (geracao' = geracao + 1 \/ (pc' = "laco" /\ geracao' = 0))]_vars

\* the second call on an instance has returned after two generations
C5_Witness ==
    /\ pc = "done"
    /\ chamadas = 2
    /\ geracoes = 2
    /\ Len(historico_custos) = 4

\* C6 as stated: a call that returns has run all its generations and returns a
\* candidate of numbers with a finite fitness; a call that raises has produced
\* nothing.
C6_Original ==
    /\ pc = "done" =>
           /\ geracao = geracoes
           /\ resultado[1] # Nenhum
           /\ resultado[2].k = "num"
           /\ \A i \in DOMAIN resultado[1].v : resultado[1].v[i].k = "num"
    /\ pc = "erro" =>
           /\ historico_custos = <<>>
           /\ melhor_solucao = Nenhum

\* C7 as stated: with taxa_crossover = 0 the child equals pai1; with
\* taxa_crossover = 1 every non-zero position of the child is a non-zero
\* position of pai1 or of pai2 (parents being valid candidates).
C7_Original ==
    [][(pc = "cross" /\ pc' = "mut" /\ Valido(pai1.v) /\ Valido(pai2.v)) =>
           /\ taxa_crossover = Num(0) => filho'.v = pai1.v
           /\ taxa_crossover = Num(1) =>
                  \A i \in Genes :
                      filho'.v[i] # Num(0) => (pai1.v[i] # Num(0) \/ pai2.v[i] # Num(0))]_vars

\* C8: when a generation has been evaluated, an individual whose blended
\* properties meet all four thresholds, a value on its threshold included, has
\* a fitness equal to its raw blend cost: its penalty is 0.
C8_ViavelSemPenalidade ==
    Avaliada =>
        \A i \in DOMAIN populacao :
            Viavel(populacao[i]) =>
                /\ fitness_values[i] = Dot(populacao[i], custos)
                /\ calcular_penalidades(populacao[i]) = Num(0)

\* an evaluated individual that is feasible with benzene and sulfur on their thresholds
C8_Witness ==
    /\ Avaliada
    /\ \E i \in DOMAIN populacao :
           /\ Viavel(populacao[i])
           /\ Dot(populacao[i], teor_benzeno) = Num(benzeno_max)
           /\ Dot(populacao[i], teor_enxofre) = Num(enxofre_max)
           /\ fitness_values[i] = Q(275, 100)

\* C9: while the offspring of a generation are built, no step changes the
\* population, its fitness array, the all-time-best candidate, the elite or an
\* offspring already built.
C9_PopulacaoIntacta ==
    [][(Construindo /\ Construindo') =>
           /\ populacao' = populacao
           /\ fitness_values' = fitness_values
           /\ melhor_solucao' = melhor_solucao
           /\ melhor_custo' = melhor_custo
           /\ \A i \in DOMAIN nova_populacao : nova_populacao'[i] = nova_populacao[i]]_vars

\* mutacao has perturbed a copy of a population member (no crossover took place)
C9_Witness ==
    /\ pc = "enche"
    /\ taxa_crossover = Num(0)
    /\ Len(nova_populacao) >= 2
    /\ \A i \in DOMAIN populacao : nova_populacao[2].v # populacao[i]

\* C10 as stated: the trajectory of a run on a fresh instance is non-increasing,
\* and after each generation melhor_custo is the latest entry and the fitness
\* of melhor_solucao.
C10_Original ==
    /\ \A i \in 1..(Len(historico_custos) - 1) :
           QLeq(historico_custos[i + 1], historico_custos[i])
    /\ Len(historico_custos) > 0 =>
           /\ melhor_custo = historico_custos[Len(historico_custos)]
           /\ melhor_solucao # Nenhum
           /\ fitness(melhor_solucao.v) = melhor_custo

====
